---- MODULE Spec2Model ----
(***************************************************************************)
(* Connection-setup capability and version negotiation of the SV2 common  *)
(* messages (protocols/v2/subprotocols/common-messages/src/               *)
(* setup_connection.rs).                                                   *)
(*                                                                         *)
(* A u32 flag word is modelled as the set of the positions of its set     *)
(* bits, position 0 being the least-significant bit (the bit of value 1)  *)
(* and position 31 the most-significant one.  The word operations of the  *)
(* source (reverse_bits, <<, >>, |, &, comparison with 0) are defined on  *)
(* that representation with their 32-bit width.                            *)
(***************************************************************************)
EXTENDS Integers, Sequences, FiniteSets, TLC

VARIABLES conn, mutated, call, ffi

vars == <<conn, mutated, call, ffi>>

----------------------------------------------------------------------------
(* Bounds of the model *)

\* versions range over 0..MaxVersion and the largest u16
MaxVersion == 6
\* flag words passed to the flag functions: every combination of the
\* LowBits least-significant and the TopBits most-significant bits
LowBits == 4
TopBits == 2
\* flag words a SetupConnection record starts with
RecLowBits == 1
RecTopBits == 1
\* copies made of one foreign representation
MaxClones == 1
\* transactions in a transaction list
MaxTx == 2
\* byte values tried as protocol codes, besides 255
MaxByte == 4
\* ids of JSON-RPC requests and responses
MaxId == 2

----------------------------------------------------------------------------
(* u32 words *)

WordWidth == 32

BitPos == 0 .. (WordWidth - 1)

\* the u32 whose value is the natural number n (n < 2^31)
Word(n) == {i \in 0 .. (WordWidth - 2) : (n \div (2 ^ i)) % 2 = 1}

\* u32::reverse_bits
reverse_bits(w) == {(WordWidth - 1) - i : i \in w}

\* w << k on u32: the bits shifted past the top are lost
Shl(w, k) == {i + k : i \in w} \cap BitPos

\* w >> k on u32
Shr(w, k) == {i - k : i \in w} \cap BitPos

BitOr(a, b) == a \cup b

BitAnd(a, b) == a \cap b

BitXor(a, b) == (a \ b) \cup (b \ a)

\* w > 0, equally w != 0, on u32
NonZero(w) == w # {}

\* every word whose set bits lie among the low least-significant and the
\* top most-significant positions
Words(low, top) ==
    {Word(lo) \cup {(WordWidth - 1) - j : j \in T} :
        lo \in 0 .. ((2 ^ low) - 1), T \in SUBSET (0 .. (top - 1))}

FlagWords == Words(LowBits, TopBits)

RecordFlags == Words(RecLowBits, RecTopBits)

\* the largest u16
U16Max == 65535

\* the versions drawn: the small ones and the largest u16
Versions == (0 .. MaxVersion) \cup {U16Max}

----------------------------------------------------------------------------
(* Protocol and Option *)

\* no foreign representation in play
NoFfi == [stage |-> "none"]

Protocol == {"MiningProtocol", "JobDeclarationProtocol", "TemplateDistributionProtocol"}

None == [some |-> FALSE]

Some(v) == [some |-> TRUE, v |-> v]

Min(a, b) == IF a <= b THEN a ELSE b

\* a call that unwinds (panic) instead of returning a value
Panic == [panic |-> TRUE]

----------------------------------------------------------------------------
(* Byte strings and the bounded types built on them *)

\* A byte string is kept run-length encoded: a sequence of runs <<n, b>>
\* (n >= 1 bytes of value b), no two neighbouring runs of the same byte.

\* the string of n bytes b
Blob(n, b) == IF n = 0 THEN <<>> ELSE <<<<n, b>>>>

RECURSIVE ByteLen(_)
ByteLen(bs) == IF bs = <<>> THEN 0 ELSE bs[1][1] + ByteLen(Tail(bs))

\* concatenation
Cat(x, y) ==
    IF x = <<>> THEN y
    ELSE IF y = <<>> THEN x
    ELSE IF x[Len(x)][2] = y[1][2]
         THEN SubSeq(x, 1, Len(x) - 1)
                \o <<<<x[Len(x)][1] + y[1][1], y[1][2]>>>>
                \o Tail(y)
         ELSE x \o y

\* the first k bytes (k <= ByteLen(bs))
RECURSIVE TakeBytes(_, _)
TakeBytes(bs, k) ==
    IF k = 0 \/ bs = <<>> THEN <<>>
    ELSE IF bs[1][1] <= k
         THEN Cat(<<bs[1]>>, TakeBytes(Tail(bs), k - bs[1][1]))
         ELSE <<<<k, bs[1][2]>>>>

\* all but the first k bytes
RECURSIVE DropBytes(_, _)
DropBytes(bs, k) ==
    IF k = 0 \/ bs = <<>> THEN bs
    ELSE IF bs[1][1] <= k
         THEN DropBytes(Tail(bs), k - bs[1][1])
         ELSE <<<<bs[1][1] - k, bs[1][2]>>>> \o Tail(bs)

Ok(v) == [ok |-> TRUE, v |-> v]

Err(e) == [ok |-> FALSE, e |-> e]

\* maximum payload length of each bounded byte type
B032Max == 32
Str0255Max == 255
B064KMax == 65535
B016MMax == 16777215
Seq064KMax == 65535

MaxSize(type) ==
    CASE type = "B032" -> B032Max
      [] type = "Str0255" -> Str0255Max
      [] type = "B064K" -> B064KMax
      [] type = "B016M" -> B016MMax

\* TryFrom<&mut [u8]> for a bounded byte type: the bytes, or an error when
\* there are more of them than the type allows
bounded_try_from(type, bytes) ==
    IF ByteLen(bytes) > MaxSize(type)
    THEN Err(<<"ValueExceedsMaxSize">>)
    ELSE Ok(bytes)

\* Seq064K::new
Seq064K_new(list) ==
    IF Len(list) > Seq064KMax THEN Err(<<"SeqExceedsMaxSize">>) ELSE Ok(list)

----------------------------------------------------------------------------
(* SetupConnection *)

\* the bounded strings and the port of create_setup_connection, as bytes
Host0 == <<48, 46, 48, 46, 48, 46, 48>>

Vendor0 == <<118, 101, 110, 100, 111, 114>>

HwVersion0 == <<104, 119>>

Firmware0 == <<102, 119>>

DeviceId0 == <<105, 100>>

\* the records the struct can hold: every field is public and the derived
\* decoder checks no relation between the fields
SetupConnection ==
    [protocol : Protocol,
     min_version : Versions,
     max_version : Versions,
     flags : RecordFlags,
     endpoint_host : {Host0},
     endpoint_port : {0},
     vendor : {Vendor0},
     hardware_version : {HwVersion0},
     firmware : {Firmware0},
     device_id : {DeviceId0}]

\* the record of the unit tests
create_setup_connection ==
    [protocol |-> "MiningProtocol",
     min_version |-> 1,
     max_version |-> 4,
     flags |-> Word(0),
     endpoint_host |-> Host0,
     endpoint_port |-> 0,
     vendor |-> Vendor0,
     hardware_version |-> HwVersion0,
     firmware |-> Firmware0,
     device_id |-> DeviceId0]

\* a setter that toggles the bit instead of setting it
set_requires_standard_job_toggle(self) ==
    [self EXCEPT !.flags = BitXor(@, Word(1))]

\* self.flags |= 0b...0001
set_requires_standard_job(self) ==
    [self EXCEPT !.flags = BitOr(@, Word(1))]

\* a setter that assigns the flag word instead of or-ing the bit into it
set_async_job_nogotiation_assign(self) ==
    [self EXCEPT !.flags = Word(1)]

\* a setter that writes the bit of value 2
set_async_job_nogotiation_second_bit(self) ==
    [self EXCEPT !.flags = BitOr(@, Word(2))]

\* self.flags |= 0b...0001
set_async_job_nogotiation(self) ==
    [self EXCEPT !.flags = BitOr(@, Word(1))]

\* the arm demanding of the available word what the required word asks
check_flags_mining_demanding(available_flags, required_flags) ==
    LET available == reverse_bits(available_flags)
        required == reverse_bits(required_flags)
        requires_work_selection_passed == NonZero(Shr(required, 30))
        requires_version_rolling_passed == NonZero(Shr(required, 29))
        requires_work_selection_self == NonZero(Shr(available, 30))
        requires_version_rolling_self == NonZero(Shr(available, 29))
        work_selection ==
            (~requires_work_selection_passed) \/ requires_work_selection_self
        version_rolling ==
            (~requires_version_rolling_passed) \/ requires_version_rolling_self
    IN  work_selection /\ version_rolling

\* the arm with each shifted word masked to its lowest bit, as the
\* job-declaration arm does
check_flags_mining_masked(available_flags, required_flags) ==
    LET available == reverse_bits(available_flags)
        required == reverse_bits(required_flags)
        requires_work_selection_passed ==
            NonZero(BitAnd(Shr(required, 30), Word(1)))
        requires_version_rolling_passed ==
            NonZero(BitAnd(Shr(required, 29), Word(1)))
        requires_work_selection_self ==
            NonZero(BitAnd(Shr(available, 30), Word(1)))
        requires_version_rolling_self ==
            NonZero(BitAnd(Shr(available, 29), Word(1)))
        work_selection ==
            (~requires_work_selection_self) \/ requires_work_selection_passed
        version_rolling ==
            (~requires_version_rolling_self) \/ requires_version_rolling_passed
    IN  work_selection /\ version_rolling

\* the MiningProtocol arm of check_flags
check_flags_mining(available_flags, required_flags) ==
    LET available == reverse_bits(available_flags)
        required == reverse_bits(required_flags)
        requires_work_selection_passed == NonZero(Shr(required, 30))
        requires_version_rolling_passed == NonZero(Shr(required, 29))
        requires_work_selection_self == NonZero(Shr(available, 30))
        requires_version_rolling_self == NonZero(Shr(available, 29))
        work_selection ==
            (~requires_work_selection_self) \/ requires_work_selection_passed
        version_rolling ==
            (~requires_version_rolling_self) \/ requires_version_rolling_passed
    IN  work_selection /\ version_rolling

\* the arm with the roles of the two words exchanged
check_flags_job_declaration_swapped(available_flags, required_flags) ==
    LET available == reverse_bits(available_flags)
        required == reverse_bits(required_flags)
        requires_async_job_mining_passed ==
            NonZero(BitAnd(Shr(available, 31), Word(1)))
        requires_async_job_mining_self ==
            NonZero(BitAnd(Shr(required, 31), Word(1)))
    IN  ~((~requires_async_job_mining_self) /\ requires_async_job_mining_passed)

\* the JobDeclarationProtocol arm of check_flags
check_flags_job_declaration(available_flags, required_flags) ==
    LET available == reverse_bits(available_flags)
        required == reverse_bits(required_flags)
        requires_async_job_mining_passed ==
            NonZero(BitAnd(Shr(required, 31), Word(1)))
        requires_async_job_mining_self ==
            NonZero(BitAnd(Shr(available, 31), Word(1)))
        match_self_passed(self, passed) ==
            CASE self /\ passed -> TRUE
              [] self /\ ~passed -> TRUE
              [] (~self) /\ passed -> FALSE
              [] (~self) /\ ~passed -> TRUE
    IN  match_self_passed(requires_async_job_mining_self,
                          requires_async_job_mining_passed)

\* an arm that accepts when nothing is required
check_flags_template_distribution_lenient(available_flags, required_flags) ==
    ~NonZero(required_flags)

\* the TemplateDistributionProtocol arm of check_flags
check_flags_template_distribution(available_flags, required_flags) ==
    FALSE

check_flags(protocol, available_flags, required_flags) ==
    CASE protocol = "MiningProtocol" ->
            check_flags_mining(available_flags, required_flags)
      [] protocol = "JobDeclarationProtocol" ->
            check_flags_job_declaration(available_flags, required_flags)
      [] protocol = "TemplateDistributionProtocol" ->
            check_flags_template_distribution(available_flags, required_flags)

\* the comparisons made inclusive
get_version_inclusive(self, min_version, max_version) ==
    IF self.min_version >= max_version \/ min_version >= self.max_version
    THEN None
    ELSE Some(Min(self.max_version, max_version))

\* incompatibility reported by unwinding, as an unwrap of the result would
get_version_unwrap(self, min_version, max_version) ==
    IF self.min_version > max_version \/ min_version > self.max_version
    THEN Panic
    ELSE Some(Min(self.max_version, max_version))

\* the record's own maximum returned whenever the ranges overlap
get_version_own_max(self, min_version, max_version) ==
    IF self.min_version > max_version \/ min_version > self.max_version
    THEN None
    ELSE Some(self.max_version)

get_version(self, min_version, max_version) ==
    IF self.min_version > max_version \/ min_version > self.max_version
    THEN None
    ELSE Some(Min(self.max_version, max_version))

\* the helper without the reversal of the bit order
has_requires_std_job_unreversed(flags) ==
    LET flag == Shr(flags, 31)
    IN  NonZero(flag)

has_requires_std_job(flags) ==
    LET flags1 == reverse_bits(flags)
        flag == Shr(flags1, 31)
    IN  NonZero(flag)

has_version_rolling(flags) ==
    LET flags1 == reverse_bits(flags)
        flags2 == Shl(flags1, 1)
        flag == Shr(flags2, 31)
    IN  NonZero(flag)

\* the helper with the final shift one bit short
has_work_selection_short_shift(flags) ==
    LET flags1 == reverse_bits(flags)
        flags2 == Shl(flags1, 2)
        flag == Shr(flags2, 30)
    IN  NonZero(flag)

has_work_selection(flags) ==
    LET flags1 == reverse_bits(flags)
        flags2 == Shl(flags1, 2)
        flag == Shr(flags2, 31)
    IN  NonZero(flag)

requires_standard_job(self) == has_requires_std_job(self.flags)

----------------------------------------------------------------------------
(* The foreign representations: CVec blocks and the C mirrors of messages *)

\* The heap is the sequence of the blocks allocated so far; a block keeps its
\* content and the number of times it was freed (0: still allocated).

\* a new block holding content
Alloc(heap, content) == Append(heap, [content |-> content, frees |-> 0])

\* the CVec owning the block allocated last, a byte block
LastCVec(heap) ==
    [data |-> Len(heap),
     len |-> ByteLen(heap[Len(heap)].content),
     capacity |-> ByteLen(heap[Len(heap)].content)]

\* the CVec2 owning the block allocated last, an array of CVec
LastCVec2(heap) ==
    [data |-> Len(heap),
     len |-> Len(heap[Len(heap)].content),
     capacity |-> Len(heap[Len(heap)].content)]

\* free_vec: the Vec is rebuilt from the raw parts and dropped; the CVec
\* keeps its pointer
free_vec(heap, buf) == [heap EXCEPT ![buf.data].frees = @ + 1]

RECURSIVE free_each(_, _)
free_each(heap, cvecs) ==
    IF cvecs = <<>> THEN heap
    ELSE free_each(free_vec(heap, cvecs[1]), Tail(cvecs))

\* free_vec_2: the Vec<CVec> is rebuilt from the raw parts, every element is
\* freed and the array is dropped
free_vec_2(heap, buf) ==
    free_vec(free_each(heap, heap[buf.data].content), buf)

\* what a read through a pointer to a freed block can give
UafOutcomes == {"stale", "junk", "fault"}

JunkByte == 238

\* CVec::as_mut_slice: len bytes at data; a freed block is read as its old
\* content or as whatever replaced it
as_mut_slice(heap, buf, uaf) ==
    IF heap[buf.data].frees = 0 \/ uaf = "stale"
    THEN TakeBytes(heap[buf.data].content, buf.len)
    ELSE Blob(buf.len, JunkByte)

\* CVec2::as_mut_slice: the CVec elements of the array block
as_mut_slice_2(heap, buf) == SubSeq(heap[buf.data].content, 1, buf.len)

\* From<Seq064K<B016M>> for CVec2: a block per element, then the array block
RECURSIVE alloc_each(_, _)
alloc_each(heap, list) ==
    IF list = <<>> THEN [heap |-> heap, cvecs |-> <<>>]
    ELSE LET h1 == Alloc(heap, list[1])
             rest == alloc_each(h1, Tail(list))
         IN  [heap |-> rest.heap, cvecs |-> <<LastCVec(h1)>> \o rest.cvecs]

cvec2_from(heap, list) ==
    LET r == alloc_each(heap, list)
    IN  Alloc(r.heap, r.cvecs)

\* --- CSetupConnection

\* the conversion with firmware and device_id taken from each other's field
CSetupConnection_from_crossed(v, heap) ==
    LET h1 == Alloc(heap, v.endpoint_host)
        h2 == Alloc(h1, v.vendor)
        h3 == Alloc(h2, v.hardware_version)
        h4 == Alloc(h3, v.device_id)
        h5 == Alloc(h4, v.firmware)
    IN  [heap |-> h5,
         self |-> [protocol |-> v.protocol,
                   min_version |-> v.min_version,
                   max_version |-> v.max_version,
                   flags |-> v.flags,
                   endpoint_host |-> LastCVec(h1),
                   endpoint_port |-> v.endpoint_port,
                   vendor |-> LastCVec(h2),
                   hardware_version |-> LastCVec(h3),
                   firmware |-> LastCVec(h4),
                   device_id |-> LastCVec(h5)]]

\* From<SetupConnection> for CSetupConnection
CSetupConnection_from(v, heap) ==
    LET h1 == Alloc(heap, v.endpoint_host)
        h2 == Alloc(h1, v.vendor)
        h3 == Alloc(h2, v.hardware_version)
        h4 == Alloc(h3, v.firmware)
        h5 == Alloc(h4, v.device_id)
    IN  [heap |-> h5,
         self |-> [protocol |-> v.protocol,
                   min_version |-> v.min_version,
                   max_version |-> v.max_version,
                   flags |-> v.flags,
                   endpoint_host |-> LastCVec(h1),
                   endpoint_port |-> v.endpoint_port,
                   vendor |-> LastCVec(h2),
                   hardware_version |-> LastCVec(h3),
                   firmware |-> LastCVec(h4),
                   device_id |-> LastCVec(h5)]]

\* a conversion that on an error releases the blocks of the fields it had
\* converted so far
CSetupConnection_to_rust_rep_mut_cleanup(self, heap, uaf) ==
    LET endpoint_host == bounded_try_from("Str0255", as_mut_slice(heap, self.endpoint_host, uaf))
        vendor == bounded_try_from("Str0255", as_mut_slice(heap, self.vendor, uaf))
        hardware_version == bounded_try_from("Str0255", as_mut_slice(heap, self.hardware_version, uaf))
        firmware == bounded_try_from("Str0255", as_mut_slice(heap, self.firmware, uaf))
        device_id == bounded_try_from("Str0255", as_mut_slice(heap, self.device_id, uaf))
        h1 == free_vec(heap, self.endpoint_host)
        h2 == free_vec(h1, self.vendor)
        h3 == free_vec(h2, self.hardware_version)
        h4 == free_vec(h3, self.firmware)
    IN  IF ~endpoint_host.ok THEN [ret |-> endpoint_host, heap |-> heap]
        ELSE IF ~vendor.ok THEN [ret |-> vendor, heap |-> h1]
        ELSE IF ~hardware_version.ok THEN [ret |-> hardware_version, heap |-> h2]
        ELSE IF ~firmware.ok THEN [ret |-> firmware, heap |-> h3]
        ELSE IF ~device_id.ok THEN [ret |-> device_id, heap |-> h4]
        ELSE [ret |-> Ok([protocol |-> self.protocol,
                          min_version |-> self.min_version,
                          max_version |-> self.max_version,
                          flags |-> self.flags,
                          endpoint_host |-> endpoint_host.v,
                          endpoint_port |-> self.endpoint_port,
                          vendor |-> vendor.v,
                          hardware_version |-> hardware_version.v,
                          firmware |-> firmware.v,
                          device_id |-> device_id.v]),
              heap |-> heap]

\* CSetupConnection::to_rust_rep_mut: the result and the heap it leaves
CSetupConnection_to_rust_rep_mut(self, heap, uaf) ==
    LET endpoint_host == bounded_try_from("Str0255", as_mut_slice(heap, self.endpoint_host, uaf))
        vendor == bounded_try_from("Str0255", as_mut_slice(heap, self.vendor, uaf))
        hardware_version == bounded_try_from("Str0255", as_mut_slice(heap, self.hardware_version, uaf))
        firmware == bounded_try_from("Str0255", as_mut_slice(heap, self.firmware, uaf))
        device_id == bounded_try_from("Str0255", as_mut_slice(heap, self.device_id, uaf))
    IN  IF ~endpoint_host.ok THEN [ret |-> endpoint_host, heap |-> heap]
        ELSE IF ~vendor.ok THEN [ret |-> vendor, heap |-> heap]
        ELSE IF ~hardware_version.ok THEN [ret |-> hardware_version, heap |-> heap]
        ELSE IF ~firmware.ok THEN [ret |-> firmware, heap |-> heap]
        ELSE IF ~device_id.ok THEN [ret |-> device_id, heap |-> heap]
        ELSE [ret |-> Ok([protocol |-> self.protocol,
                          min_version |-> self.min_version,
                          max_version |-> self.max_version,
                          flags |-> self.flags,
                          endpoint_host |-> endpoint_host.v,
                          endpoint_port |-> self.endpoint_port,
                          vendor |-> vendor.v,
                          hardware_version |-> hardware_version.v,
                          firmware |-> firmware.v,
                          device_id |-> device_id.v]),
              heap |-> heap]

\* a drop that forgets the firmware block
CSetupConnection_drop_leaky(self, heap) ==
    LET h1 == free_vec(heap, self.endpoint_host)
        h2 == free_vec(h1, self.vendor)
        h3 == free_vec(h2, self.hardware_version)
    IN  free_vec(h3, self.device_id)

\* Drop for CSetupConnection (free_setup_connection drops its argument)
CSetupConnection_drop(self, heap) ==
    LET h1 == free_vec(heap, self.endpoint_host)
        h2 == free_vec(h1, self.vendor)
        h3 == free_vec(h2, self.hardware_version)
        h4 == free_vec(h3, self.firmware)
    IN  free_vec(h4, self.device_id)

\* --- CSetupConnectionError

\* From<SetupConnectionError> for CSetupConnectionError
CSetupConnectionError_from(v, heap) ==
    LET h1 == Alloc(heap, v.error_code)
    IN  [heap |-> h1,
         self |-> [flags |-> v.flags, error_code |-> LastCVec(h1)]]

\* CSetupConnectionError::to_rust_rep_mut
CSetupConnectionError_to_rust_rep_mut(self, heap, uaf) ==
    LET error_code == bounded_try_from("Str0255", as_mut_slice(heap, self.error_code, uaf))
    IN  IF ~error_code.ok THEN [ret |-> error_code, heap |-> heap]
        ELSE [ret |-> Ok([flags |-> self.flags, error_code |-> error_code.v]),
              heap |-> heap]

\* Drop for CSetupConnectionError (free_setup_connection_error)
CSetupConnectionError_drop(self, heap) == free_vec(heap, self.error_code)

\* --- CSubmitSolution

\* From<SubmitSolution> for CSubmitSolution
CSubmitSolution_from(v, heap) ==
    LET h1 == Alloc(heap, v.coinbase_tx)
    IN  [heap |-> h1,
         self |-> [template_id |-> v.template_id,
                   version |-> v.version,
                   header_timestamp |-> v.header_timestamp,
                   header_nonce |-> v.header_nonce,
                   coinbase_tx |-> LastCVec(h1)]]

\* CSubmitSolution::to_rust_rep_mut
CSubmitSolution_to_rust_rep_mut(self, heap, uaf) ==
    LET coinbase_tx == bounded_try_from("B064K", as_mut_slice(heap, self.coinbase_tx, uaf))
    IN  IF ~coinbase_tx.ok THEN [ret |-> coinbase_tx, heap |-> heap]
        ELSE [ret |-> Ok([template_id |-> self.template_id,
                          version |-> self.version,
                          header_timestamp |-> self.header_timestamp,
                          header_nonce |-> self.header_nonce,
                          coinbase_tx |-> coinbase_tx.v]),
              heap |-> heap]

\* Drop for CSubmitSolution (free_submit_solution)
CSubmitSolution_drop(self, heap) == free_vec(heap, self.coinbase_tx)

\* --- CRequestTransactionDataSuccess

\* From<RequestTransactionDataSuccess> for CRequestTransactionDataSuccess
CRequestTransactionDataSuccess_from(v, heap) ==
    LET h1 == Alloc(heap, v.excess_data)
        h2 == cvec2_from(h1, v.transaction_list)
    IN  [heap |-> h2,
         self |-> [template_id |-> v.template_id,
                   excess_data |-> LastCVec(h1),
                   transaction_list |-> LastCVec2(h2)]]

\* the loop over the CVec elements: each converted to B016M and pushed, the
\* first error returned
RECURSIVE convert_transaction_list(_, _, _)
convert_transaction_list(heap, cvecs, uaf) ==
    IF cvecs = <<>> THEN Ok(<<>>)
    ELSE LET first == bounded_try_from("B016M", as_mut_slice(heap, cvecs[1], uaf))
             rest == convert_transaction_list(heap, Tail(cvecs), uaf)
         IN  IF ~first.ok THEN first
             ELSE IF ~rest.ok THEN rest
             ELSE Ok(<<first.v>> \o rest.v)

\* CRequestTransactionDataSuccess::to_rust_rep_mut
CRequestTransactionDataSuccess_to_rust_rep_mut(self, heap, uaf) ==
    LET excess_data == bounded_try_from("B064K", as_mut_slice(heap, self.excess_data, uaf))
        transaction_list_ == as_mut_slice_2(heap, self.transaction_list)
        pushed == convert_transaction_list(heap, transaction_list_, uaf)
        transaction_list == IF pushed.ok THEN Seq064K_new(pushed.v) ELSE pushed
    IN  IF ~excess_data.ok THEN [ret |-> excess_data, heap |-> heap]
        ELSE IF ~pushed.ok THEN [ret |-> pushed, heap |-> heap]
        ELSE IF ~transaction_list.ok THEN [ret |-> transaction_list, heap |-> heap]
        ELSE [ret |-> Ok([template_id |-> self.template_id,
                          excess_data |-> excess_data.v,
                          transaction_list |-> transaction_list.v]),
              heap |-> heap]

\* Drop for CRequestTransactionDataSuccess (free_request_tx_data_success)
CRequestTransactionDataSuccess_drop(self, heap) ==
    LET h1 == free_vec(heap, self.excess_data)
    IN  free_vec_2(h1, self.transaction_list)

\* --- CRequestTransactionDataError

\* From<RequestTransactionDataError> for CRequestTransactionDataError
CRequestTransactionDataError_from(v, heap) ==
    LET h1 == Alloc(heap, v.error_code)
    IN  [heap |-> h1,
         self |-> [template_id |-> v.template_id, error_code |-> LastCVec(h1)]]

\* CRequestTransactionDataError::to_rust_rep_mut
CRequestTransactionDataError_to_rust_rep_mut(self, heap, uaf) ==
    LET error_code == bounded_try_from("Str0255", as_mut_slice(heap, self.error_code, uaf))
    IN  IF ~error_code.ok THEN [ret |-> error_code, heap |-> heap]
        ELSE [ret |-> Ok([template_id |-> self.template_id, error_code |-> error_code.v]),
              heap |-> heap]

\* Drop for CRequestTransactionDataError (free_request_tx_data_error)
CRequestTransactionDataError_drop(self, heap) == free_vec(heap, self.error_code)

\* --- the five mirrors together

c_from(type, v, heap) ==
    CASE type = "SetupConnection" -> CSetupConnection_from(v, heap)
      [] type = "SetupConnectionError" -> CSetupConnectionError_from(v, heap)
      [] type = "SubmitSolution" -> CSubmitSolution_from(v, heap)
      [] type = "RequestTransactionDataSuccess" ->
            CRequestTransactionDataSuccess_from(v, heap)
      [] type = "RequestTransactionDataError" ->
            CRequestTransactionDataError_from(v, heap)

c_to_rust_rep_mut(type, self, heap, uaf) ==
    CASE type = "SetupConnection" -> CSetupConnection_to_rust_rep_mut(self, heap, uaf)
      [] type = "SetupConnectionError" ->
            CSetupConnectionError_to_rust_rep_mut(self, heap, uaf)
      [] type = "SubmitSolution" -> CSubmitSolution_to_rust_rep_mut(self, heap, uaf)
      [] type = "RequestTransactionDataSuccess" ->
            CRequestTransactionDataSuccess_to_rust_rep_mut(self, heap, uaf)
      [] type = "RequestTransactionDataError" ->
            CRequestTransactionDataError_to_rust_rep_mut(self, heap, uaf)

c_drop(type, self, heap) ==
    CASE type = "SetupConnection" -> CSetupConnection_drop(self, heap)
      [] type = "SetupConnectionError" -> CSetupConnectionError_drop(self, heap)
      [] type = "SubmitSolution" -> CSubmitSolution_drop(self, heap)
      [] type = "RequestTransactionDataSuccess" ->
            CRequestTransactionDataSuccess_drop(self, heap)
      [] type = "RequestTransactionDataError" ->
            CRequestTransactionDataError_drop(self, heap)

\* the mirrors that derive Clone; the copy holds the same block pointers
CloneTypes == {"SetupConnection", "SetupConnectionError"}

----------------------------------------------------------------------------
(* The codec: field lists, sizes, encoding and decoding *)

SV2_MINING_PROTOCOL_DISCRIMINANT == 0
SV2_JOB_DECLARATION_PROTOCOL_DISCRIMINANT == 1
SV2_TEMPLATE_DISTR_PROTOCOL_DISCRIMINANT == 2

\* v as u8
as_u8(v) ==
    CASE v = "MiningProtocol" -> SV2_MINING_PROTOCOL_DISCRIMINANT
      [] v = "JobDeclarationProtocol" -> SV2_JOB_DECLARATION_PROTOCOL_DISCRIMINANT
      [] v = "TemplateDistributionProtocol" -> SV2_TEMPLATE_DISTR_PROTOCOL_DISCRIMINANT

\* a match without the template-distribution arm
try_from_two_arms(value) ==
    IF value = SV2_MINING_PROTOCOL_DISCRIMINANT THEN Ok("MiningProtocol")
    ELSE IF value = SV2_JOB_DECLARATION_PROTOCOL_DISCRIMINANT
         THEN Ok("JobDeclarationProtocol")
    ELSE Err(<<>>)

\* TryFrom<u8> for Protocol
try_from(value) ==
    IF value = SV2_MINING_PROTOCOL_DISCRIMINANT THEN Ok("MiningProtocol")
    ELSE IF value = SV2_JOB_DECLARATION_PROTOCOL_DISCRIMINANT
         THEN Ok("JobDeclarationProtocol")
    ELSE IF value = SV2_TEMPLATE_DISTR_PROTOCOL_DISCRIMINANT
         THEN Ok("TemplateDistributionProtocol")
    ELSE Err(<<>>)

\* a decoder that does not look at the decoded value
from_decoded_fields_blind(v) ==
    IF v = <<>> THEN Err(<<"NoDecodableFieldPassed">>)
    ELSE Ok("MiningProtocol")

\* Decodable for Protocol, from_decoded_fields: the last decoded field, a u8,
\* converted by try_from
from_decoded_fields(v) ==
    IF v = <<>> THEN Err(<<"NoDecodableFieldPassed">>)
    ELSE LET val == v[Len(v)]
             p == try_from(val)
         IN  IF p.ok THEN p ELSE Err(<<"ValueIsNotAValidProtocol", val>>)

\* --- primitives

\* the byte at offset i
ByteAt(bs, i) == TakeBytes(DropBytes(bs, i), 1)[1][2]

\* v in w bytes, least-significant byte first
RECURSIVE to_le_bytes(_, _)
to_le_bytes(v, w) ==
    IF w = 0 THEN <<>>
    ELSE Cat(Blob(1, v % 256), to_le_bytes(v \div 256, w - 1))

\* the value of the first w bytes, least-significant byte first
RECURSIVE from_le_bytes(_, _)
from_le_bytes(bs, w) ==
    IF w = 0 THEN 0
    ELSE ByteAt(bs, 0) + 256 * from_le_bytes(DropBytes(bs, 1), w - 1)

Bit(w, k) == IF k \in w THEN 1 ELSE 0

\* byte i of a u32 word
WordByte(w, i) ==
    Bit(w, 8 * i) + 2 * Bit(w, 8 * i + 1) + 4 * Bit(w, 8 * i + 2)
        + 8 * Bit(w, 8 * i + 3) + 16 * Bit(w, 8 * i + 4) + 32 * Bit(w, 8 * i + 5)
        + 64 * Bit(w, 8 * i + 6) + 128 * Bit(w, 8 * i + 7)

\* u32::to_le_bytes of a word
word_to_le_bytes(w) ==
    Cat(Cat(Blob(1, WordByte(w, 0)), Blob(1, WordByte(w, 1))),
        Cat(Blob(1, WordByte(w, 2)), Blob(1, WordByte(w, 3))))

RECURSIVE Pow2(_)
Pow2(k) == IF k = 0 THEN 1 ELSE 2 * Pow2(k - 1)

\* u32::from_le_bytes as a word
word_from_le_bytes(bs) ==
    {k \in BitPos : (ByteAt(bs, k \div 8) \div Pow2(k % 8)) % 2 = 1}

IntKinds == {"u8", "u16", "u32", "u64"}

IntWidth(kind) ==
    CASE kind = "u8" -> 1
      [] kind = "u16" -> 2
      [] kind = "u32" -> 4
      [] kind = "u64" -> 8

BoundedKinds == {"B032", "Str0255", "B064K", "B016M"}

\* width of the length prefix of a bounded type
PrefixWidth(kind) ==
    CASE kind = "B032" -> 1
      [] kind = "Str0255" -> 1
      [] kind = "B064K" -> 2
      [] kind = "B016M" -> 3

\* width of the count prefix of a Seq064K
CountWidth == 2

RECURSIVE SumSizes(_)
SumSizes(list) ==
    IF list = <<>> THEN 0
    ELSE PrefixWidth("B016M") + ByteLen(list[1]) + SumSizes(Tail(list))

\* GetSize of a field
field_get_size(kind, v) ==
    CASE kind \in IntKinds -> IntWidth(kind)
      [] kind = "flags" -> IntWidth("u32")
      [] kind = "Protocol" -> 1
      [] kind \in BoundedKinds -> PrefixWidth(kind) + ByteLen(v)
      [] kind = "Seq064K_B016M" -> CountWidth + SumSizes(v)

RECURSIVE encode_each(_)
encode_each(list) ==
    IF list = <<>> THEN <<>>
    ELSE Cat(Cat(to_le_bytes(ByteLen(list[1]), PrefixWidth("B016M")), list[1]),
             encode_each(Tail(list)))

\* the encoding of a field
encode_field(kind, v) ==
    CASE kind \in IntKinds -> to_le_bytes(v, IntWidth(kind))
      [] kind = "flags" -> word_to_le_bytes(v)
      [] kind = "Protocol" -> to_le_bytes(as_u8(v), 1)
      [] kind \in BoundedKinds -> Cat(to_le_bytes(ByteLen(v), PrefixWidth(kind)), v)
      [] kind = "Seq064K_B016M" -> Cat(to_le_bytes(Len(v), CountWidth), encode_each(v))

Decoded(v, size) == [ok |-> TRUE, v |-> v, size |-> size]

\* a bounded type read from the front of bs
decode_bounded(kind, bs) ==
    LET p == PrefixWidth(kind)
        n == from_le_bytes(bs, p)
    IN  IF ByteLen(bs) < p THEN Err(<<"OutOfBound">>)
        ELSE IF n > MaxSize(kind) THEN Err(<<"ValueExceedsMaxSize">>)
        ELSE IF ByteLen(bs) < p + n THEN Err(<<"OutOfBound">>)
        ELSE Decoded(TakeBytes(DropBytes(bs, p), n), p + n)

RECURSIVE decode_each(_, _)
decode_each(count, bs) ==
    IF count = 0 THEN Decoded(<<>>, 0)
    ELSE LET first == decode_bounded("B016M", bs)
             rest == decode_each(count - 1, DropBytes(bs, first.size))
         IN  IF ~first.ok THEN first
             ELSE IF ~rest.ok THEN rest
             ELSE Decoded(<<first.v>> \o rest.v, first.size + rest.size)

\* a field read from the front of bs: the value and the bytes consumed
decode_field(kind, bs) ==
    CASE kind \in IntKinds ->
            IF ByteLen(bs) < IntWidth(kind) THEN Err(<<"OutOfBound">>)
            ELSE Decoded(from_le_bytes(bs, IntWidth(kind)), IntWidth(kind))
      [] kind = "flags" ->
            IF ByteLen(bs) < IntWidth("u32") THEN Err(<<"OutOfBound">>)
            ELSE Decoded(word_from_le_bytes(bs), IntWidth("u32"))
      [] kind = "Protocol" ->
            IF ByteLen(bs) < 1 THEN Err(<<"OutOfBound">>)
            ELSE LET p == from_decoded_fields(<<ByteAt(bs, 0)>>)
                 IN  IF p.ok THEN Decoded(p.v, 1) ELSE p
      [] kind \in BoundedKinds -> decode_bounded(kind, bs)
      [] kind = "Seq064K_B016M" ->
            IF ByteLen(bs) < CountWidth THEN Err(<<"OutOfBound">>)
            ELSE LET r == decode_each(from_le_bytes(bs, CountWidth),
                                      DropBytes(bs, CountWidth))
                 IN  IF r.ok THEN Decoded(r.v, CountWidth + r.size) ELSE r

\* --- the messages

MessageTypes ==
    {"SetupConnection", "SetupConnectionSuccess", "SetupConnectionError",
     "SubmitSharesStandard", "SubmitSharesExtended", "SubmitSharesSuccess",
     "SubmitSharesError", "RequestTransactionData",
     "RequestTransactionDataSuccess", "RequestTransactionDataError",
     "SubmitSolution"}

\* the fields of each struct, in the declared order
Fields(type) ==
    CASE type = "SetupConnection" ->
            << <<"protocol", "Protocol">>, <<"min_version", "u16">>,
               <<"max_version", "u16">>, <<"flags", "flags">>,
               <<"endpoint_host", "Str0255">>, <<"endpoint_port", "u16">>,
               <<"vendor", "Str0255">>, <<"hardware_version", "Str0255">>,
               <<"firmware", "Str0255">>, <<"device_id", "Str0255">> >>
      [] type = "SetupConnectionSuccess" ->
            << <<"used_version", "u16">>, <<"flags", "flags">> >>
      [] type = "SetupConnectionError" ->
            << <<"flags", "flags">>, <<"error_code", "Str0255">> >>
      [] type = "SubmitSharesStandard" ->
            << <<"channel_id", "u32">>, <<"sequence_number", "u32">>,
               <<"job_id", "u32">>, <<"nonce", "u32">>, <<"ntime", "u32">>,
               <<"version", "u32">> >>
      [] type = "SubmitSharesExtended" ->
            << <<"channel_id", "u32">>, <<"sequence_number", "u32">>,
               <<"job_id", "u32">>, <<"nonce", "u32">>, <<"ntime", "u32">>,
               <<"version", "u32">>, <<"extranonce", "B032">> >>
      [] type = "SubmitSharesSuccess" ->
            << <<"channel_id", "u32">>, <<"last_sequence_number", "u32">>,
               <<"new_submits_accepted_count", "u32">>,
               <<"new_shares_sum", "u64">> >>
      [] type = "SubmitSharesError" ->
            << <<"channel_id", "u32">>, <<"sequence_number", "u32">>,
               <<"error_code", "Str0255">> >>
      [] type = "RequestTransactionData" ->
            << <<"template_id", "u64">> >>
      [] type = "RequestTransactionDataSuccess" ->
            << <<"template_id", "u64">>, <<"excess_data", "B064K">>,
               <<"transaction_list", "Seq064K_B016M">> >>
      [] type = "RequestTransactionDataError" ->
            << <<"template_id", "u64">>, <<"error_code", "Str0255">> >>
      [] type = "SubmitSolution" ->
            << <<"template_id", "u64">>, <<"version", "u32">>,
               <<"header_timestamp", "u32">>, <<"header_nonce", "u32">>,
               <<"coinbase_tx", "B064K">> >>

KindOf(type, name) ==
    LET fs == Fields(type)
    IN  fs[CHOOSE i \in 1 .. Len(fs) : fs[i][1] = name][2]

\* self.<name>.get_size()
size_of(type, self, name) == field_get_size(KindOf(type, name), self[name])

\* a sum that leaves out endpoint_port
SetupConnection_get_size_short(self) ==
    size_of("SetupConnection", self, "protocol")
        + size_of("SetupConnection", self, "min_version")
        + size_of("SetupConnection", self, "max_version")
        + size_of("SetupConnection", self, "flags")
        + size_of("SetupConnection", self, "endpoint_host")
        + size_of("SetupConnection", self, "vendor")
        + size_of("SetupConnection", self, "hardware_version")
        + size_of("SetupConnection", self, "firmware")
        + size_of("SetupConnection", self, "device_id")

\* GetSize for SetupConnection
SetupConnection_get_size(self) ==
    size_of("SetupConnection", self, "protocol")
        + size_of("SetupConnection", self, "min_version")
        + size_of("SetupConnection", self, "max_version")
        + size_of("SetupConnection", self, "flags")
        + size_of("SetupConnection", self, "endpoint_host")
        + size_of("SetupConnection", self, "endpoint_port")
        + size_of("SetupConnection", self, "vendor")
        + size_of("SetupConnection", self, "hardware_version")
        + size_of("SetupConnection", self, "firmware")
        + size_of("SetupConnection", self, "device_id")

\* GetSize for SetupConnectionSuccess
SetupConnectionSuccess_get_size(self) ==
    size_of("SetupConnectionSuccess", self, "used_version")
        + size_of("SetupConnectionSuccess", self, "flags")

\* GetSize for SetupConnectionError
SetupConnectionError_get_size(self) ==
    size_of("SetupConnectionError", self, "flags")
        + size_of("SetupConnectionError", self, "error_code")

\* GetSize for SubmitSharesStandard
SubmitSharesStandard_get_size(self) ==
    size_of("SubmitSharesStandard", self, "channel_id")
        + size_of("SubmitSharesStandard", self, "sequence_number")
        + size_of("SubmitSharesStandard", self, "job_id")
        + size_of("SubmitSharesStandard", self, "nonce")
        + size_of("SubmitSharesStandard", self, "ntime")
        + size_of("SubmitSharesStandard", self, "version")

\* GetSize for SubmitSharesExtended
SubmitSharesExtended_get_size(self) ==
    size_of("SubmitSharesExtended", self, "channel_id")
        + size_of("SubmitSharesExtended", self, "sequence_number")
        + size_of("SubmitSharesExtended", self, "job_id")
        + size_of("SubmitSharesExtended", self, "nonce")
        + size_of("SubmitSharesExtended", self, "ntime")
        + size_of("SubmitSharesExtended", self, "version")
        + size_of("SubmitSharesExtended", self, "extranonce")

\* GetSize for SubmitSharesSuccess
SubmitSharesSuccess_get_size(self) ==
    size_of("SubmitSharesSuccess", self, "channel_id")
        + size_of("SubmitSharesSuccess", self, "last_sequence_number")
        + size_of("SubmitSharesSuccess", self, "new_submits_accepted_count")
        + size_of("SubmitSharesSuccess", self, "new_shares_sum")

\* GetSize for SubmitSharesError
SubmitSharesError_get_size(self) ==
    size_of("SubmitSharesError", self, "channel_id")
        + size_of("SubmitSharesError", self, "sequence_number")
        + size_of("SubmitSharesError", self, "error_code")

\* GetSize for RequestTransactionData
RequestTransactionData_get_size(self) ==
    size_of("RequestTransactionData", self, "template_id")

\* GetSize for RequestTransactionDataSuccess
RequestTransactionDataSuccess_get_size(self) ==
    size_of("RequestTransactionDataSuccess", self, "template_id")
        + size_of("RequestTransactionDataSuccess", self, "excess_data")
        + size_of("RequestTransactionDataSuccess", self, "transaction_list")

\* GetSize for RequestTransactionDataError
RequestTransactionDataError_get_size(self) ==
    size_of("RequestTransactionDataError", self, "template_id")
        + size_of("RequestTransactionDataError", self, "error_code")

\* GetSize for SubmitSolution
SubmitSolution_get_size(self) ==
    size_of("SubmitSolution", self, "template_id")
        + size_of("SubmitSolution", self, "version")
        + size_of("SubmitSolution", self, "header_timestamp")
        + size_of("SubmitSolution", self, "header_nonce")
        + size_of("SubmitSolution", self, "coinbase_tx")

get_size(type, self) ==
    CASE type = "SetupConnection" -> SetupConnection_get_size(self)
      [] type = "SetupConnectionSuccess" -> SetupConnectionSuccess_get_size(self)
      [] type = "SetupConnectionError" -> SetupConnectionError_get_size(self)
      [] type = "SubmitSharesStandard" -> SubmitSharesStandard_get_size(self)
      [] type = "SubmitSharesExtended" -> SubmitSharesExtended_get_size(self)
      [] type = "SubmitSharesSuccess" -> SubmitSharesSuccess_get_size(self)
      [] type = "SubmitSharesError" -> SubmitSharesError_get_size(self)
      [] type = "RequestTransactionData" -> RequestTransactionData_get_size(self)
      [] type = "RequestTransactionDataSuccess" ->
            RequestTransactionDataSuccess_get_size(self)
      [] type = "RequestTransactionDataError" ->
            RequestTransactionDataError_get_size(self)
      [] type = "SubmitSolution" -> SubmitSolution_get_size(self)

\* the derived Serialize: the fields written in the declared order
RECURSIVE encode_fields(_, _)
encode_fields(fs, self) ==
    IF fs = <<>> THEN <<>>
    ELSE Cat(encode_field(fs[1][2], self[fs[1][1]]), encode_fields(Tail(fs), self))

to_bytes(type, self) == encode_fields(Fields(type), self)

NoFields == [name \in {} |-> 0]

\* the derived Deserialize: the fields consumed in the declared order, the
\* first error returned
RECURSIVE decode_fields(_, _, _)
decode_fields(fs, bs, acc) ==
    IF fs = <<>> THEN Ok(acc)
    ELSE LET r == decode_field(fs[1][2], bs)
         IN  IF ~r.ok THEN r
             ELSE decode_fields(Tail(fs), DropBytes(bs, r.size),
                                acc @@ (fs[1][1] :> r.v))

from_bytes(type, bs) == decode_fields(Fields(type), bs, NoFields)

\* the elements of a list each made a B016M, then the list a Seq064K
RECURSIVE bounded_each(_)
bounded_each(list) ==
    IF list = <<>> THEN Ok(<<>>)
    ELSE LET first == bounded_try_from("B016M", list[1])
             rest == bounded_each(Tail(list))
         IN  IF ~first.ok THEN first
             ELSE IF ~rest.ok THEN rest
             ELSE Ok(<<first.v>> \o rest.v)

\* a message built from raw field values: every bounded field through the
\* try_from of its type
RECURSIVE construct_fields(_, _, _)
construct_fields(fs, raw, acc) ==
    IF fs = <<>> THEN Ok(acc)
    ELSE LET kind == fs[1][2]
             v == raw[fs[1][1]]
             r == IF kind \in BoundedKinds THEN bounded_try_from(kind, v)
                  ELSE IF kind = "Seq064K_B016M"
                       THEN LET l == bounded_each(v)
                            IN  IF l.ok THEN Seq064K_new(l.v) ELSE l
                  ELSE Ok(v)
         IN  IF ~r.ok THEN r
             ELSE construct_fields(Tail(fs), raw, acc @@ (fs[1][1] :> r.v))

construct(type, raw) == construct_fields(Fields(type), raw, NoFields)

\* whether the lengths of the raw fields fit their prefixes, so that a peer
\* can put them on the wire
RECURSIVE Pow256(_)
Pow256(w) == IF w = 0 THEN 1 ELSE 256 * Pow256(w - 1)

Writable(type, raw) ==
    \A i \in 1 .. Len(Fields(type)) :
        LET kind == Fields(type)[i][2]
            v == raw[Fields(type)[i][1]]
        IN  /\ kind \in BoundedKinds => ByteLen(v) < Pow256(PrefixWidth(kind))
            /\ kind = "Seq064K_B016M" =>
                \A k \in 1 .. Len(v) : ByteLen(v[k]) < Pow256(PrefixWidth("B016M"))

----------------------------------------------------------------------------
(* The record and the calls made on it *)

\* the calls that leave the record in a new state: its construction and the
\* two setters
Mutations == {"new", "set_requires_standard_job", "set_async_job_nogotiation"}

\* a record as constructed or decoded; no call made yet
Init ==
    /\ conn \in SetupConnection
    /\ mutated = {}
    /\ call = [op |-> "new"]
    /\ ffi = NoFfi

SetRequiresStandardJob ==
    /\ conn' = set_requires_standard_job(conn)
    /\ mutated' = mutated \cup {"set_requires_standard_job"}
    /\ call' = [op |-> "set_requires_standard_job"]
    /\ UNCHANGED ffi

SetAsyncJobNogotiation ==
    /\ conn' = set_async_job_nogotiation(conn)
    /\ mutated' = mutated \cup {"set_async_job_nogotiation"}
    /\ call' = [op |-> "set_async_job_nogotiation"]
    /\ UNCHANGED ffi

\* a query is made on the record as constructed or as the setters left it
\* (the caller holds the result of one query at a time)
GetVersion ==
    /\ call.op \in Mutations
    /\ \E min_version \in Versions, max_version \in Versions :
        call' = [op |-> "get_version",
                    min_version |-> min_version,
                    max_version |-> max_version,
                    ret |-> get_version(conn, min_version, max_version)]
    /\ UNCHANGED <<conn, mutated, ffi>>

RequiresStandardJob ==
    /\ call.op \in Mutations
    /\ call' = [op |-> "requires_standard_job", ret |-> requires_standard_job(conn)]
    /\ UNCHANGED <<conn, mutated, ffi>>

Next ==
    \/ SetRequiresStandardJob
    \/ SetAsyncJobNogotiation
    \/ GetVersion
    \/ RequiresStandardJob

Spec == Init /\ [][Next]_vars

----------------------------------------------------------------------------
(* The flag functions, each applied once to one choice of flag words *)

InitFlags ==
    /\ conn = create_setup_connection
    /\ mutated = {}
    /\ call = [op |-> "new"]
    /\ ffi = NoFfi

CheckFlags ==
    /\ call.op = "new"
    /\ \E protocol \in Protocol, available_flags \in FlagWords, required_flags \in FlagWords :
        call' = [op |-> "check_flags",
                    protocol |-> protocol,
                    available_flags |-> available_flags,
                    required_flags |-> required_flags,
                    ret |-> check_flags(protocol, available_flags, required_flags)]
    /\ UNCHANGED <<conn, mutated, ffi>>

HasRequiresStdJob ==
    /\ call.op = "new"
    /\ \E flags \in FlagWords :
        call' = [op |-> "has_requires_std_job", flags |-> flags,
                    ret |-> has_requires_std_job(flags)]
    /\ UNCHANGED <<conn, mutated, ffi>>

HasVersionRolling ==
    /\ call.op = "new"
    /\ \E flags \in FlagWords :
        call' = [op |-> "has_version_rolling", flags |-> flags,
                    ret |-> has_version_rolling(flags)]
    /\ UNCHANGED <<conn, mutated, ffi>>

HasWorkSelection ==
    /\ call.op = "new"
    /\ \E flags \in FlagWords :
        call' = [op |-> "has_work_selection", flags |-> flags,
                    ret |-> has_work_selection(flags)]
    /\ UNCHANGED <<conn, mutated, ffi>>

NextFlags ==
    \/ CheckFlags
    \/ HasRequiresStdJob
    \/ HasVersionRolling
    \/ HasWorkSelection

SpecFlags == InitFlags /\ [][NextFlags]_vars

----------------------------------------------------------------------------
(* get_version and check_flags on the extreme version bounds *)

\* records whose version bounds are the extreme u16 values, one of them
\* with min_version > max_version
InitTotal ==
    /\ conn \in {[create_setup_connection EXCEPT !.min_version = ab[1], !.max_version = ab[2]] :
                    ab \in {<<0, U16Max>>, <<U16Max, 0>>}}
    /\ mutated = {}
    /\ call = [op |-> "new"]
    /\ ffi = NoFfi

NextTotal ==
    \/ GetVersion
    \/ CheckFlags

SpecTotal == InitTotal /\ [][NextTotal]_vars

----------------------------------------------------------------------------
(* The foreign lifecycle: convert, copy, convert back, release *)

FfiTypes ==
    {"SetupConnection", "SetupConnectionError", "SubmitSolution",
     "RequestTransactionDataSuccess", "RequestTransactionDataError"}

\* the lengths at the ends of a bounded type and one byte over it
EdgeLens(type) == {0, MaxSize(type), MaxSize(type) + 1}

\* byte strings of the edge lengths, all of the byte b
EdgeBlobs(type, b) == {Blob(n, b) : n \in EdgeLens(type)}

\* the transaction lists: up to MaxTx elements of the edge lengths
TxLists == UNION {[1 .. n -> EdgeBlobs("B016M", 116)] : n \in 0 .. MaxTx}

\* the field values a mirror of the type can be filled with
FfiMessages(type) ==
    CASE type = "SetupConnection" ->
            [protocol : {"MiningProtocol"},
             min_version : {2},
             max_version : {2},
             flags : {Word(1)},
             endpoint_host : EdgeBlobs("Str0255", 104),
             endpoint_port : {3333},
             vendor : EdgeBlobs("Str0255", 118),
             hardware_version : EdgeBlobs("Str0255", 119),
             firmware : EdgeBlobs("Str0255", 102),
             device_id : EdgeBlobs("Str0255", 100)]
      [] type = "SetupConnectionError" ->
            [flags : {Word(0), Word(1)},
             error_code : EdgeBlobs("Str0255", 101)]
      [] type = "SubmitSolution" ->
            [template_id : {1},
             version : {2},
             header_timestamp : {3},
             header_nonce : {4},
             coinbase_tx : EdgeBlobs("B064K", 99)]
      [] type = "RequestTransactionDataSuccess" ->
            [template_id : {1},
             excess_data : EdgeBlobs("B064K", 120),
             transaction_list : TxLists]
      [] type = "RequestTransactionDataError" ->
            [template_id : {1},
             error_code : EdgeBlobs("Str0255", 101)]

IsBounded(type, bytes) == ByteLen(bytes) <= MaxSize(type)

\* the messages of the Rust side: every bounded field within its type
WellFormed(type, m) ==
    CASE type = "SetupConnection" ->
            /\ IsBounded("Str0255", m.endpoint_host)
            /\ IsBounded("Str0255", m.vendor)
            /\ IsBounded("Str0255", m.hardware_version)
            /\ IsBounded("Str0255", m.firmware)
            /\ IsBounded("Str0255", m.device_id)
      [] type = "SetupConnectionError" -> IsBounded("Str0255", m.error_code)
      [] type = "SubmitSolution" -> IsBounded("B064K", m.coinbase_tx)
      [] type = "RequestTransactionDataSuccess" ->
            /\ IsBounded("B064K", m.excess_data)
            /\ \A i \in 1 .. Len(m.transaction_list) :
                    IsBounded("B016M", m.transaction_list[i])
      [] type = "RequestTransactionDataError" -> IsBounded("Str0255", m.error_code)

RustMessages(type) == {m \in FfiMessages(type) : WellFormed(type, m)}

\* the blocks a mirror holds, as heap indices: all of them, the mirror being
\* built on an empty heap
Blocks(heap) == 1 .. Len(heap)

Mirror(type, m, origin) ==
    LET r == c_from(type, m, <<>>)
    IN  [stage |-> "mirror",
         type |-> type,
         msg |-> m,
         origin |-> origin,
         self |-> r.self,
         heap |-> r.heap,
         held |-> 1,
         clones |-> 0,
         released |-> 0,
         failed |-> FALSE]

InitFfi ==
    /\ conn = create_setup_connection
    /\ mutated = {}
    /\ call = [op |-> "new"]
    /\ ffi = NoFfi

\* a message of the Rust side is converted into its mirror
From ==
    /\ ffi.stage = "none"
    /\ \E type \in FfiTypes : \E m \in RustMessages(type) :
        /\ ffi' = Mirror(type, m, "from")
        /\ call' = [op |-> "from"]
    /\ UNCHANGED <<conn, mutated>>

\* the foreign caller fills a mirror itself, blocks of any length
ForeignBuild ==
    /\ ffi.stage = "none"
    /\ \E type \in FfiTypes : \E m \in FfiMessages(type) :
        /\ ffi' = Mirror(type, m, "foreign")
        /\ call' = [op |-> "foreign_build"]
    /\ UNCHANGED <<conn, mutated>>

\* #[derive(Clone)]: one more instance with the same block pointers
Clone ==
    /\ ffi.stage = "mirror"
    /\ ffi.type \in CloneTypes
    /\ ffi.held >= 1
    /\ ffi.clones < MaxClones
    /\ ffi' = [ffi EXCEPT !.held = @ + 1, !.clones = @ + 1]
    /\ call' = [op |-> "clone"]
    /\ UNCHANGED <<conn, mutated>>

Fault == [fault |-> TRUE]

\* to_rust_rep_mut on an instance still held
ToRustRepMut ==
    /\ ffi.stage = "mirror"
    /\ ffi.held >= 1
    /\ \E uaf \in UafOutcomes :
        LET r == c_to_rust_rep_mut(ffi.type, ffi.self, ffi.heap, uaf)
            dangling == \E b \in Blocks(ffi.heap) : ffi.heap[b].frees > 0
        IN  IF dangling /\ uaf = "fault"
            THEN /\ call' = [op |-> "to_rust_rep_mut", ret |-> Fault]
                 /\ ffi' = ffi
            ELSE /\ call' = [op |-> "to_rust_rep_mut", ret |-> r.ret]
                 /\ ffi' = [ffi EXCEPT !.heap = r.heap,
                                       !.failed = @ \/ ~r.ret.ok]
    /\ UNCHANGED <<conn, mutated>>

\* the free function of the type, on an instance still held
Free ==
    /\ ffi.stage = "mirror"
    /\ ffi.held >= 1
    /\ ffi' = [ffi EXCEPT !.heap = c_drop(ffi.type, ffi.self, ffi.heap),
                          !.held = @ - 1,
                          !.released = @ + 1]
    /\ call' = [op |-> "free"]
    /\ UNCHANGED <<conn, mutated>>

NextFfi == From \/ ForeignBuild \/ Clone \/ ToRustRepMut \/ Free

SpecFfi == InitFfi /\ [][NextFfi]_vars

----------------------------------------------------------------------------
(* The codec calls: a conversion, a construction, an encoding, a decoding *)

ByteValues == (0 .. MaxByte) \cup {255}

\* the raw field values the messages are built from
CodecRaw(type) ==
    CASE type = "SetupConnection" ->
            [protocol : Protocol,
             min_version : {2},
             max_version : {2},
             flags : {{0, 2, 30}},
             endpoint_host : EdgeBlobs("Str0255", 104),
             endpoint_port : {3333},
             vendor : EdgeBlobs("Str0255", 118),
             hardware_version : EdgeBlobs("Str0255", 119),
             firmware : EdgeBlobs("Str0255", 102),
             device_id : EdgeBlobs("Str0255", 100)]
      [] type = "SetupConnectionSuccess" ->
            [used_version : {2, U16Max}, flags : {Word(0), {0, 31}}]
      [] type = "SetupConnectionError" ->
            [flags : {Word(0), Word(1)}, error_code : EdgeBlobs("Str0255", 101)]
      [] type = "SubmitSharesStandard" ->
            [channel_id : {1}, sequence_number : {0, 258}, job_id : {3},
             nonce : {2147483647}, ntime : {65536}, version : {536870912}]
      [] type = "SubmitSharesExtended" ->
            [channel_id : {1}, sequence_number : {0, 258}, job_id : {3},
             nonce : {2147483647}, ntime : {65536}, version : {536870912},
             extranonce : EdgeBlobs("B032", 110)]
      [] type = "SubmitSharesSuccess" ->
            [channel_id : {1}, last_sequence_number : {258},
             new_submits_accepted_count : {0, 7}, new_shares_sum : {0, 65537}]
      [] type = "SubmitSharesError" ->
            [channel_id : {1}, sequence_number : {258},
             error_code : EdgeBlobs("Str0255", 101)]
      [] type = "RequestTransactionData" -> [template_id : {0, 1, 16777216}]
      [] type = "RequestTransactionDataSuccess" ->
            [template_id : {1},
             excess_data : EdgeBlobs("B064K", 120),
             transaction_list : TxLists]
      [] type = "RequestTransactionDataError" ->
            [template_id : {1}, error_code : EdgeBlobs("Str0255", 101)]
      [] type = "SubmitSolution" ->
            [template_id : {1}, version : {2}, header_timestamp : {3},
             header_nonce : {4}, coinbase_tx : EdgeBlobs("B064K", 99)]

InitCodec ==
    /\ conn = create_setup_connection
    /\ mutated = {}
    /\ call = [op |-> "new"]
    /\ ffi = NoFfi

\* Protocol::try_from(value)
TryFrom ==
    /\ call.op = "new"
    /\ \E value \in ByteValues :
        call' = [op |-> "try_from", value |-> value, ret |-> try_from(value)]
    /\ UNCHANGED <<conn, mutated, ffi>>

\* Protocol::from_decoded_fields(v)
FromDecodedFields ==
    /\ call.op = "new"
    /\ \E v \in {<<>>} \cup {<<b>> : b \in ByteValues} :
        call' = [op |-> "from_decoded_fields", v |-> v,
                 ret |-> from_decoded_fields(v)]
    /\ UNCHANGED <<conn, mutated, ffi>>

\* a message is built from raw field values
Construct ==
    /\ call.op = "new"
    /\ \E type \in MessageTypes : \E raw \in CodecRaw(type) :
        call' = [op |-> "construct", type |-> type, raw |-> raw,
                 ret |-> construct(type, raw)]
    /\ UNCHANGED <<conn, mutated, ffi>>

\* the message built is sized and encoded
ToBytes ==
    /\ call.op = "construct"
    /\ call.ret.ok
    /\ call' = [op |-> "to_bytes", type |-> call.type, self |-> call.ret.v,
                size |-> get_size(call.type, call.ret.v),
                ret |-> to_bytes(call.type, call.ret.v)]
    /\ UNCHANGED <<conn, mutated, ffi>>

\* the bytes encoded are decoded
FromBytes ==
    /\ call.op = "to_bytes"
    /\ call' = [op |-> "from_bytes", type |-> call.type, self |-> call.self,
                bytes |-> call.ret,
                ret |-> from_bytes(call.type, call.ret)]
    /\ UNCHANGED <<conn, mutated, ffi>>

\* bytes written by a peer are decoded: the raw fields in the wire format,
\* whatever their lengths
FromPeerBytes ==
    /\ call.op = "new"
    /\ \E type \in MessageTypes : \E raw \in CodecRaw(type) :
        /\ Writable(type, raw)
        /\ call' = [op |-> "from_peer_bytes", type |-> type, raw |-> raw,
                    ret |-> from_bytes(type, to_bytes(type, raw))]
    /\ UNCHANGED <<conn, mutated, ffi>>

NextCodec ==
    TryFrom \/ FromDecodedFields \/ Construct \/ ToBytes \/ FromBytes
        \/ FromPeerBytes

SpecCodec == InitCodec /\ [][NextCodec]_vars

----------------------------------------------------------------------------
(* The connection-setup handshake of the receiving side *)

\* what the receiving side supports: its protocol, its version range and the
\* flags it has available
LocalSetups ==
    [protocol : Protocol,
     range : {<<2, 2>>, <<1, 4>>},
     flags : RecordFlags]

\* the records offered to it
OfferedSetups ==
    {[create_setup_connection EXCEPT !.protocol = p,
                                     !.min_version = r[1],
                                     !.max_version = r[2],
                                     !.flags = f] :
        p \in Protocol, r \in {<<2, 2>>, <<1, 4>>, <<5, 5>>}, f \in RecordFlags}

\* the flags asked for that the receiving side does not have
Offending(required_flags, available_flags) == required_flags \ available_flags

\* a rejection that echoes the flags whatever the error code
rejection_echoing(error_code, offending) ==
    [rejected |-> TRUE, flags |-> offending, error_code |-> error_code]

\* SetupConnectionError: flags names the offending flags when error_code is
\* unsupported-feature-flags, otherwise it is 0
rejection(error_code, offending) ==
    [rejected |-> TRUE,
     flags |-> IF error_code = "unsupported-feature-flags"
               THEN offending ELSE Word(0),
     error_code |-> error_code]

\* SetupConnectionSuccess
acceptance(used_version, flags) ==
    [rejected |-> FALSE, used_version |-> used_version, flags |-> flags]

\* the resolution of an offered record: protocol selection, version-range
\* intersection, flag compatibility
handle_setup_connection(m, local) ==
    LET offending == Offending(m.flags, local.flags)
        version == get_version(m, local.range[1], local.range[2])
    IN  IF m.protocol # local.protocol
        THEN rejection("unsupported-protocol", offending)
        ELSE IF version = None
        THEN rejection("protocol-version-mismatch", offending)
        ELSE IF ~check_flags(m.protocol, local.flags, m.flags)
        THEN rejection("unsupported-feature-flags", offending)
        ELSE acceptance(version.v, local.flags)

\* Offered until the record has been acted on, Resolved from then on
Stage == IF call.op = "handle_setup_connection" THEN "Resolved" ELSE "Offered"

InitHandshake ==
    /\ conn \in OfferedSetups
    /\ mutated = {}
    /\ call = [op |-> "new"]
    /\ ffi = NoFfi

HandleSetupConnection ==
    /\ Stage = "Offered"
    /\ \E local \in LocalSetups :
        call' = [op |-> "handle_setup_connection", local |-> local,
                 ret |-> handle_setup_connection(conn, local)]
    /\ UNCHANGED <<conn, mutated, ffi>>

NextHandshake == HandleSetupConnection

SpecHandshake == InitHandshake /\ [][NextHandshake]_vars

----------------------------------------------------------------------------
(* The JSON-RPC messages of the v1 protocol *)

\* serde_json::Value, a few of its values
JsonValues == {"null", "true", "[]"}

Methods == {"mining.subscribe", "mining.submit"}

Ids == 0 .. MaxId

JsonRpcError ==
    [code : {-1, 20}, message : {"error"},
     data : {None} \cup {Some(v) : v \in {"null"}}]

StandardRequest == [id : Ids, method : Methods, params : JsonValues]

Notification == [method : Methods, params : JsonValues]

Response ==
    [id : Ids,
     error : {None} \cup {Some(e) : e \in JsonRpcError},
     result : JsonValues]

\* Option::is_some
is_some(o) == o.some

\* a conversion with the test on the error field negated
from_response_negated(res) ==
    IF ~is_some(res.error)
    THEN [variant |-> "ErrorResponse", v |-> res]
    ELSE [variant |-> "OkResponse", v |-> res]

\* From<Response> for Message
from_response(res) ==
    IF is_some(res.error)
    THEN [variant |-> "ErrorResponse", v |-> res]
    ELSE [variant |-> "OkResponse", v |-> res]

\* From<StandardRequest> for Message
from_standard_request(sr) == [variant |-> "StandardRequest", v |-> sr]

\* From<Notification> for Message
from_notification(n) == [variant |-> "Notification", v |-> n]

\* Message::is_response
is_response(self) ==
    CASE self.variant = "StandardRequest" -> FALSE
      [] self.variant = "Notification" -> FALSE
      [] self.variant = "OkResponse" -> TRUE
      [] self.variant = "ErrorResponse" -> TRUE

Conversions == {"from_response", "from_standard_request", "from_notification"}

InitRpc ==
    /\ conn = create_setup_connection
    /\ mutated = {}
    /\ call = [op |-> "new"]
    /\ ffi = NoFfi

FromResponse ==
    /\ call.op = "new"
    /\ \E res \in Response :
        call' = [op |-> "from_response", arg |-> res, ret |-> from_response(res)]
    /\ UNCHANGED <<conn, mutated, ffi>>

FromStandardRequest ==
    /\ call.op = "new"
    /\ \E sr \in StandardRequest :
        call' = [op |-> "from_standard_request", arg |-> sr,
                 ret |-> from_standard_request(sr)]
    /\ UNCHANGED <<conn, mutated, ffi>>

FromNotification ==
    /\ call.op = "new"
    /\ \E n \in Notification :
        call' = [op |-> "from_notification", arg |-> n,
                 ret |-> from_notification(n)]
    /\ UNCHANGED <<conn, mutated, ffi>>

\* is_response() on the message a conversion has built
IsResponse ==
    /\ call.op \in Conversions
    /\ call' = [op |-> "is_response", built_by |-> call.op, self |-> call.ret,
                ret |-> is_response(call.ret)]
    /\ UNCHANGED <<conn, mutated, ffi>>

NextRpc == FromResponse \/ FromStandardRequest \/ FromNotification \/ IsResponse

SpecRpc == InitRpc /\ [][NextRpc]_vars

----------------------------------------------------------------------------
(* Version negotiation *)

InRange(v, lo, hi) == lo <= v /\ v <= hi

\* the versions both the record and the passed range contain, at a get_version call
CommonVersions ==
    {v \in Versions : /\ InRange(v, conn.min_version, conn.max_version)
                      /\ InRange(v, call.min_version, call.max_version)}

\* C1: get_version(min', max') on a record [min, max] returns Some(min(max, max'))
\* when min <= max' and min' <= max, and None otherwise; (1,4) against (1,5)
\* gives 4, (1,4) against (6,6) gives None, (5,5) against (1,4) gives None.
C1_GetVersionResult ==
    call.op = "get_version" =>
        LET overlap == /\ conn.min_version <= call.max_version
                       /\ call.min_version <= conn.max_version
            smaller == IF conn.max_version <= call.max_version
                       THEN conn.max_version ELSE call.max_version
            is(a, b, c, d) == /\ conn.min_version = a /\ conn.max_version = b
                              /\ call.min_version = c /\ call.max_version = d
        IN  /\ overlap => call.ret = Some(smaller)
            /\ (~overlap) => call.ret = None
            /\ is(1, 4, 1, 5) => call.ret = Some(4)
            /\ is(1, 4, 6, 6) => call.ret = None
            /\ is(5, 5, 1, 4) => call.ret = None

\* the record (1,4) was asked for its version against (1,5) and answered 4
C1_Witness ==
    /\ call.op = "get_version"
    /\ conn.min_version = 1 /\ conn.max_version = 4
    /\ call.min_version = 1 /\ call.max_version = 5
    /\ call.ret = Some(4)

\* C2: a returned Some(v) is the biggest version of both ranges (v lies in the
\* record's range and in the passed range and no larger version lies in both);
\* a returned None means the two ranges share no version.
C2_BiggestCommonVersion ==
    call.op = "get_version" =>
        IF call.ret.some
        THEN /\ call.ret.v \in CommonVersions
             /\ \A w \in CommonVersions : w <= call.ret.v
        ELSE CommonVersions = {}

\* C3: every record held satisfies min_version <= max_version.
C3_MinLeMax == conn.min_version <= conn.max_version

\* the record with its range and the range it is queried with exchanged
Exchanged(self, min_version, max_version) ==
    [self EXCEPT !.min_version = min_version, !.max_version = max_version]

\* C22: a record holding A queried with B answers as a record holding B
\* queried with A, and a record with min_version <= max_version queried with
\* its own range answers its max_version.
C22_GetVersionSymmetric ==
    call.op = "get_version" =>
        /\ call.ret =
            get_version(Exchanged(conn, call.min_version, call.max_version),
                        conn.min_version, conn.max_version)
        /\ (/\ conn.min_version <= conn.max_version
            /\ call.min_version = conn.min_version
            /\ call.max_version = conn.max_version)
           => call.ret = Some(conn.max_version)

\* the range (1, 4) was queried with (2, 6): the exchanged query is (2, 6)
\* queried with (1, 4)
C22_Witness ==
    /\ call.op = "get_version"
    /\ conn.min_version = 1 /\ conn.max_version = 4
    /\ call.min_version = 2 /\ call.max_version = 6
    /\ call.ret = Some(4)

----------------------------------------------------------------------------
(* Flag compatibility *)

\* the bit set_async_job_nogotiation and set_requires_standard_job write
LowestBit == Word(1)

IsCheck(protocol) == call.op = "check_flags" /\ call.protocol = protocol

\* C4: for the job-declaration protocol check_flags is false exactly when the
\* required word has the async-job bit set and the available word has not:
\* over (local requires, peer requires) it is (T,T) -> T, (T,F) -> T,
\* (F,T) -> F, (F,F) -> T.
C4_JobDeclarationTruthTable ==
    IsCheck("JobDeclarationProtocol") =>
        LET self == LowestBit \subseteq call.available_flags
            passed == LowestBit \subseteq call.required_flags
        IN  /\ (self /\ passed) => call.ret
            /\ (self /\ ~passed) => call.ret
            /\ ((~self) /\ passed) => ~call.ret
            /\ ((~self) /\ ~passed) => call.ret

\* the peer requires async job negotiation, the local side does not: refused
C4_Witness ==
    /\ IsCheck("JobDeclarationProtocol")
    /\ LowestBit \subseteq call.required_flags
    /\ ~(LowestBit \subseteq call.available_flags)
    /\ call.ret = FALSE

\* C5: for the template-distribution protocol check_flags is false for every
\* pair of flag words, both zero included.
C5_TemplateDistributionAlwaysFalse ==
    IsCheck("TemplateDistributionProtocol") => call.ret = FALSE

\* the check was made with both words zero
C5_Witness ==
    /\ IsCheck("TemplateDistributionProtocol")
    /\ call.available_flags = Word(0)
    /\ call.required_flags = Word(0)
    /\ call.ret = FALSE

\* C6: for the mining protocol check_flags is true exactly when, for version
\* rolling and for work selection, each taken as the single bit its helper
\* predicate tests, the available word lacks the bit or the required word has
\* it; no other bit matters.
C6_MiningSingleBits ==
    IsCheck("MiningProtocol") =>
        call.ret =
            (/\ (~has_version_rolling(call.available_flags))
                    \/ has_version_rolling(call.required_flags)
             /\ (~has_work_selection(call.available_flags))
                    \/ has_work_selection(call.required_flags))

\* C11: get_version and check_flags never unwind: for every protocol, pair of
\* flag words and version bounds (min > max and the bounds 0 and 65535
\* included) they return Some(v) or None, respectively true or false.
C11_NeverUnwinds ==
    /\ call.op = "get_version" =>
        /\ call.ret # Panic
        /\ call.ret \in {None} \cup {Some(v) : v \in Versions}
    /\ call.op = "check_flags" => call.ret \in BOOLEAN

\* the record (65535, 0) was asked for its version against (65535, 0)
C11_Witness ==
    /\ call.op = "get_version"
    /\ conn.min_version = U16Max /\ conn.max_version = 0
    /\ call.min_version = U16Max /\ call.max_version = 0
    /\ call.ret = None

\* C12: for the mining protocol, an available word with none of the three
\* lowest bits set is compatible with every required word, e.g. available 0
\* with required 1.
C12_MiningNothingRequiredLocally ==
    (IsCheck("MiningProtocol") /\ ~NonZero(BitAnd(call.available_flags, Word(7))))
        => call.ret = TRUE

\* the check of the unit test: available 0, required 1
C12_Witness ==
    /\ IsCheck("MiningProtocol")
    /\ call.available_flags = Word(0)
    /\ call.required_flags = Word(1)
    /\ call.ret = TRUE

\* whether the word has one of the bits at the positions given
HasAny(flags, positions) == flags \cap positions # {}

----------------------------------------------------------------------------
(* The helper predicates *)

IsHelper(k) ==
    call.op = CASE k = 0 -> "has_requires_std_job"
                [] k = 1 -> "has_version_rolling"
                [] k = 2 -> "has_work_selection"

\* the helper predicate of index k
Helper(k, flags) ==
    CASE k = 0 -> has_requires_std_job(flags)
      [] k = 1 -> has_version_rolling(flags)
      [] k = 2 -> has_work_selection(flags)

\* C7 as stated: bit-index 0 is the most-significant bit, so the three helpers
\* test the bits at 0, 1 and 2 places from the most-significant end.
C7_IndexFromMostSignificant ==
    \A k \in 0 .. 2 :
        IsHelper(k) => call.ret = (((WordWidth - 1) - k) \in call.flags)

\* C7 amended: bit-index 0 is the least-significant bit, so the three helpers
\* test the bits at 0, 1 and 2 places from the least-significant end.
C7_IndexFromLeastSignificant ==
    \A k \in 0 .. 2 :
        IsHelper(k) => call.ret = (k \in call.flags)

\* version rolling was asked of a word with only its two most-significant
\* bits set, and denied
C7_Witness ==
    /\ IsHelper(1)
    /\ call.flags = {WordWidth - 1, WordWidth - 2}
    /\ call.ret = FALSE

\* C8: each helper tests exactly one bit, the top bit of the reversed word
\* shifted left by k: the bit of value 1 for k = 0, of value 2 for k = 1, of
\* value 4 for k = 2; words that agree on that bit get the same answer, and
\* every combination of the three answers occurs.
C8_HelpersTestOneBit ==
    /\ \A k \in 0 .. 2 :
        IsHelper(k) =>
            /\ call.ret = NonZero(BitAnd(call.flags, Word(2 ^ k)))
            /\ call.ret = ((WordWidth - 1) \in Shl(reverse_bits(call.flags), k))
            /\ \A other \in FlagWords :
                (BitAnd(other, Word(2 ^ k)) = BitAnd(call.flags, Word(2 ^ k)))
                    => Helper(k, other) = call.ret
    /\ (\E k \in 0 .. 2 : IsHelper(k)) =>
        \A b0 \in BOOLEAN, b1 \in BOOLEAN, b2 \in BOOLEAN :
            \E w \in FlagWords :
                /\ has_requires_std_job(w) = b0
                /\ has_version_rolling(w) = b1
                /\ has_work_selection(w) = b2

\* work selection was asked of the word of value 4 with the top bit set too
C8_Witness ==
    /\ IsHelper(2)
    /\ call.flags = BitOr(Word(4), {WordWidth - 1})
    /\ call.ret = TRUE

----------------------------------------------------------------------------
(* The setters *)

Setters == {"set_requires_standard_job", "set_async_job_nogotiation"}

\* C9: once set_requires_standard_job has been called, requires_standard_job()
\* returns true, also after further setter calls (the bit is never cleared);
\* on a record with flags 0 and no setter called it returns false.
C9_RequiresStandardJobSticks ==
    /\ ("set_requires_standard_job" \in mutated) => requires_standard_job(conn)
    /\ call.op = "requires_standard_job" =>
        /\ ("set_requires_standard_job" \in mutated) => call.ret = TRUE
        /\ (mutated = {} /\ conn.flags = Word(0)) => call.ret = FALSE

\* both setters were called and the record then answered true
C9_Witness ==
    /\ call.op = "requires_standard_job"
    /\ mutated = Setters
    /\ call.ret = TRUE

\* C10: a setter call leaves every field but flags unchanged and changes at
\* most one bit of flags.
C10_SettersTouchOnlyFlags ==
    [][(call'.op \in Setters) =>
            /\ [conn' EXCEPT !.flags = conn.flags] = conn
            /\ Cardinality(BitXor(conn.flags, conn'.flags)) <= 1]_vars

\* set_async_job_nogotiation was called on a record with the top flag bit set
C10_Witness ==
    /\ call.op = "set_async_job_nogotiation"
    /\ mutated = {"set_async_job_nogotiation"}
    /\ conn.flags = {0, WordWidth - 1}

\* either setter sets the lowest bit and nothing else, whatever was called
\* before
SettersSetLowestBit ==
    (call'.op \in Setters) => conn'.flags = conn.flags \cup {0}

\* with the bit of set_async_job_nogotiation written, the job-declaration
\* check of the record's word passes against every required word
AsyncBitSatisfiesJobDeclaration ==
    call.op = "set_async_job_nogotiation" =>
        \A r \in RecordFlags \cup {Word(0), Word(3)} :
            check_flags("JobDeclarationProtocol", conn.flags, r)

\* C23: set_async_job_nogotiation writes the bit the job-declaration check
\* reads as the local requirement, so the check then passes for every
\* required word; set_requires_standard_job writes the same bit, and a
\* repeated call of either changes nothing.
C23_SettersShareTheJobDeclarationBit ==
    /\ [][SettersSetLowestBit]_vars
    /\ []AsyncBitSatisfiesJobDeclaration

\* set_async_job_nogotiation was called after set_requires_standard_job on a
\* record whose word was 0
C23_Witness ==
    /\ call.op = "set_async_job_nogotiation"
    /\ mutated = Setters
    /\ conn.flags = Word(1)

----------------------------------------------------------------------------
(* The foreign representations *)

IsMirror == ffi.stage = "mirror"

\* C14: to_rust_rep_mut applied to the mirror built by From(m), nothing of it
\* released, succeeds and yields m field by field, the transaction list in
\* its order.
C14_ForeignRoundTrip ==
    (IsMirror /\ ffi.origin = "from" /\ ffi.released = 0
        /\ call.op = "to_rust_rep_mut")
    => call.ret = Ok(ffi.msg)

C14_Witness ==
    /\ IsMirror
    /\ ffi.origin = "from"
    /\ ffi.type = "RequestTransactionDataSuccess"
    /\ ffi.released = 0
    /\ call.op = "to_rust_rep_mut"
    /\ Len(ffi.msg.transaction_list) = 2
    /\ ffi.msg.transaction_list[1] # ffi.msg.transaction_list[2]
    /\ call.ret = Ok(ffi.msg)

\* C15: once an instance that was never copied has been released once, every
\* block its conversion allocated has been freed exactly once and none
\* remains allocated.
C15_ReleaseOnceFreesAll ==
    (IsMirror /\ ffi.clones = 0 /\ ffi.released = 1)
    => /\ Len(ffi.heap) >= 1
       /\ \A b \in Blocks(ffi.heap) : ffi.heap[b].frees = 1

C15_Witness ==
    /\ IsMirror
    /\ ffi.type = "RequestTransactionDataSuccess"
    /\ ffi.clones = 0
    /\ ffi.released = 1
    /\ Len(ffi.msg.transaction_list) = 2
    /\ Len(ffi.heap) = 4
    /\ \A b \in Blocks(ffi.heap) : ffi.heap[b].frees = 1

\* C16: in no sequence of convert, clone and release is a block freed more
\* than once.
C16_NoBlockFreedTwice ==
    IsMirror => \A b \in Blocks(ffi.heap) : ffi.heap[b].frees <= 1

\* a to_rust_rep_mut that returns an error frees no block and leaves the
\* mirror as it was
FailedConversionTouchesNothing ==
    (ffi.stage = "mirror" /\ call'.op = "to_rust_rep_mut"
        /\ call' # call /\ call'.ret # Fault /\ ~call'.ret.ok)
    => /\ ffi'.heap = ffi.heap
       /\ ffi'.self = ffi.self

\* after a failed conversion a single release of the instance frees every
\* block, each once
ReleaseAfterFailure ==
    (IsMirror /\ ffi.failed /\ ffi.clones = 0 /\ ffi.released = 1)
    => \A b \in Blocks(ffi.heap) : ffi.heap[b].frees = 1

\* C17: a to_rust_rep_mut that returns an error at any field has freed no
\* block and has not changed the mirror, and a single release after it frees
\* every block exactly once.
C17_FailedConversionThenRelease ==
    /\ [][FailedConversionTouchesNothing]_vars
    /\ []ReleaseAfterFailure

C17_Witness ==
    /\ IsMirror
    /\ ffi.type = "SetupConnection"
    /\ ByteLen(ffi.msg.endpoint_host) = Str0255Max
    /\ ByteLen(ffi.msg.vendor) = Str0255Max + 1
    /\ ffi.failed
    /\ ffi.clones = 0
    /\ ffi.released = 1
    /\ \A b \in Blocks(ffi.heap) : ffi.heap[b].frees = 1

----------------------------------------------------------------------------
(* The codec *)

Discriminants ==
    {SV2_MINING_PROTOCOL_DISCRIMINANT, SV2_JOB_DECLARATION_PROTOCOL_DISCRIMINANT,
     SV2_TEMPLATE_DISTR_PROTOCOL_DISCRIMINANT}

\* C13: try_from succeeds exactly on the three discriminants, returning the
\* protocol whose discriminant the byte is (so try_from(p as u8) is p), and is
\* an error on every other byte; decoding such a byte fails with
\* ValueIsNotAValidProtocol.
C13_TryFromExactlyDiscriminants ==
    /\ call.op = "try_from" =>
        /\ call.ret.ok <=> call.value \in Discriminants
        /\ \A p \in Protocol : as_u8(p) = call.value => call.ret = Ok(p)
        /\ call.value \notin Discriminants => call.ret = Err(<<>>)
    /\ (call.op = "from_decoded_fields" /\ call.v # <<>>) =>
        /\ \A p \in Protocol : as_u8(p) = call.v[1] => call.ret = Ok(p)
        /\ call.v[1] \notin Discriminants =>
            call.ret = Err(<<"ValueIsNotAValidProtocol", call.v[1]>>)

C13_Witness ==
    /\ call.op = "try_from"
    /\ call.value = SV2_TEMPLATE_DISTR_PROTOCOL_DISCRIMINANT
    /\ call.ret = Ok("TemplateDistributionProtocol")

\* the size of a SetupConnection counted by hand
SetupConnectionWireSize(m) ==
    1 + 2 + 2 + 4 + 2
        + (1 + ByteLen(m.endpoint_host)) + (1 + ByteLen(m.vendor))
        + (1 + ByteLen(m.hardware_version)) + (1 + ByteLen(m.firmware))
        + (1 + ByteLen(m.device_id))

\* C18: get_size of a constructible message is the byte length of its
\* encoding; for SetupConnection it is 1 + 2 + 2 + 4 + 2 plus prefix and
\* payload of each of the five strings.
C18_SizeIsEncodedLength ==
    call.op = "to_bytes" =>
        /\ call.size = ByteLen(call.ret)
        /\ call.type = "SetupConnection" =>
            call.size = SetupConnectionWireSize(call.self)

C18_Witness ==
    /\ call.op = "to_bytes"
    /\ call.type = "SetupConnection"
    /\ \A f \in {"endpoint_host", "vendor", "hardware_version", "firmware",
                 "device_id"} : ByteLen(call.self[f]) = Str0255Max
    /\ call.size = 1291
    /\ ByteLen(call.ret) = 1291

\* every bounded field of the raw values within the maximum of its type
Legal(type, raw) ==
    \A i \in 1 .. Len(Fields(type)) :
        LET kind == Fields(type)[i][2]
            v == raw[Fields(type)[i][1]]
        IN  /\ kind \in BoundedKinds => ByteLen(v) <= MaxSize(kind)
            /\ kind = "Seq064K_B016M" =>
                \A k \in 1 .. Len(v) : ByteLen(v[k]) <= B016MMax

\* C19: a message with bounded fields of legal lengths is constructed as it
\* is, and decoding its encoding gives it back; with a field of maximum + 1
\* bytes the construction fails with a length violation, and so does the
\* decoding of such a field written by a peer.
C19_RoundTrip ==
    /\ call.op = "construct" =>
        IF Legal(call.type, call.raw)
        THEN call.ret = Ok(call.raw)
        ELSE call.ret = Err(<<"ValueExceedsMaxSize">>)
    /\ call.op = "from_bytes" => call.ret = Ok(call.self)
    /\ call.op = "from_peer_bytes" =>
        IF Legal(call.type, call.raw)
        THEN call.ret = Ok(call.raw)
        ELSE call.ret = Err(<<"ValueExceedsMaxSize">>)

C19_Witness ==
    /\ call.op = "from_bytes"
    /\ call.type = "RequestTransactionDataSuccess"
    /\ ByteLen(call.self.excess_data) = B064KMax
    /\ Len(call.self.transaction_list) = 2
    /\ ByteLen(call.self.transaction_list[1]) = 0
    /\ ByteLen(call.self.transaction_list[2]) = B016MMax
    /\ call.ret = Ok(call.self)

----------------------------------------------------------------------------
(* The handshake *)

Rejected == Stage = "Resolved" /\ call.ret.rejected

ErrorCodes ==
    {"unsupported-feature-flags", "unsupported-protocol",
     "protocol-version-mismatch"}

\* the flags of a rejection: the offending flags under
\* unsupported-feature-flags, 0 under every other error code
RejectionFlags ==
    Rejected =>
        /\ call.ret.error_code \in ErrorCodes
        /\ call.ret.flags =
            IF call.ret.error_code = "unsupported-feature-flags"
            THEN Offending(conn.flags, call.local.flags)
            ELSE Word(0)

----------------------------------------------------------------------------
(* The JSON-RPC messages *)

\* C24: From<Response> builds ErrorResponse exactly when the error field is
\* present and OkResponse otherwise, keeping the response; is_response() is
\* true for a message built from a Response and false for one built from a
\* StandardRequest or a Notification.
C24_ResponseVariants ==
    /\ call.op = "from_response" =>
        /\ call.ret.v = call.arg
        /\ call.ret.variant \in {"ErrorResponse", "OkResponse"}
        /\ call.ret.variant = "ErrorResponse" <=> call.arg.error \in {Some(e) : e \in JsonRpcError}
    /\ call.op = "is_response" =>
        (call.ret <=> call.built_by = "from_response")

\* a response with an error became an ErrorResponse, which is a response
C24_Witness ==
    /\ call.op = "is_response"
    /\ call.built_by = "from_response"
    /\ call.self.variant = "ErrorResponse"
    /\ call.self.v.error.some
    /\ call.ret = TRUE

====
